---- MODULE Spec2Model ----
(***************************************************************************)
(* State-machine model of the price ingestion pipeline of src/main.go:     *)
(* main (getInitialPrices, subscribeToPools), one goroutine per subscribed *)
(* pool, the two event handlers and updatePriceCache under cacheMutex.     *)
(*                                                                         *)
(* Numbers.  big.Int / big.Float values are modelled on the lattice        *)
(* 2^e2 * 5^e5 (plus zero and +Inf), on which the products, quotients and  *)
(* powers of 2 and 10 the code computes are exact.  A logarithm is kept in *)
(* micro-nats: e2 * ln 2 + e5 * ln 5, with -Inf and +Inf.                  *)
(*                                                                         *)
(* Pointers.  *PriceInfo values are never written after construction, so   *)
(* a pointer is modelled by the record it points to.                       *)
(***************************************************************************)
EXTENDS Integers, Sequences, FiniteSets, TLC

VARIABLES
    config,          \* config.Pools: pool address -> PoolConfig
    priceCache,      \* pairKey -> sequence of PriceInfo
    bestPriceCache,  \* pairKey -> BestPriceInfo
    cacheMutex,      \* the thread holding cacheMutex, or NoThread
    pc,              \* thread -> position in the code
    loc,             \* thread -> locals of the handler it is running
    toSeed,          \* pools getInitialPrices has still to visit
    toSub,           \* pools subscribeToPools has still to visit
    logs,            \* the logs the last FilterLogs of getInitialPrices returned
    sub,             \* pool -> result of SubscribeFilterLogs
    now,             \* time.Now().Unix()
    crashed,         \* an unrecovered panic has ended the process
    applied          \* history: pool -> <<price>> of its last completed update

vars == <<config, priceCache, bestPriceCache, cacheMutex, pc, loc, toSeed,
          toSub, logs, sub, now, crashed, applied>>

----------------------------------------------------------------------------
(* Bounds *)

MaxTime == 1

MaxLogs == 2

----------------------------------------------------------------------------
(* Numbers: big.Int and big.Float values *)

Zero == [kind |-> "zero", e2 |-> 0, e5 |-> 0]

Inf == [kind |-> "inf", e2 |-> 0, e5 |-> 0]

Fin(a, b) == [kind |-> "fin", e2 |-> a, e5 |-> b]

One == Fin(0, 0)

Pow2(k) == Fin(k, 0)

Pow10(k) == Fin(k, k)

\* big.Float.Mul; the factors the code multiplies are never 0 and Inf at once
Mul(x, y) ==
    IF x.kind = "zero" \/ y.kind = "zero" THEN Zero
    ELSE IF x.kind = "inf" \/ y.kind = "inf" THEN Inf
    ELSE Fin(x.e2 + y.e2, x.e5 + y.e5)

\* big.Float.Quo panics with ErrNaN on 0/0 and Inf/Inf
QuoPanics(x, y) ==
    \/ x.kind = "zero" /\ y.kind = "zero"
    \/ x.kind = "inf" /\ y.kind = "inf"

\* big.Float.Quo where it does not panic
Quo(x, y) ==
    IF x.kind = "zero" \/ y.kind = "inf" THEN Zero
    ELSE IF y.kind = "zero" \/ x.kind = "inf" THEN Inf
    ELSE Fin(x.e2 - y.e2, x.e5 - y.e5)

\* big.Int.Exp(10, y, nil): x**y, and 1 when y <= 0
BigIntExp10(y) == IF y <= 0 THEN One ELSE Pow10(y)

Ln2Micro == 693147

Ln5Micro == 1609438

NegInfLog == [kind |-> "neginf", v |-> 0]

PosInfLog == [kind |-> "posinf", v |-> 0]

FinLog(n) == [kind |-> "fin", v |-> n]

\* math.Log(price.Float64()) as a big.Float: Log(0) = -Inf, Log(+Inf) = +Inf
Log(x) ==
    IF x.kind = "zero" THEN NegInfLog
    ELSE IF x.kind = "inf" THEN PosInfLog
    ELSE FinLog(x.e2 * Ln2Micro + x.e5 * Ln5Micro)

\* big.Float.Neg
Neg(l) ==
    IF l.kind = "neginf" THEN PosInfLog
    ELSE IF l.kind = "posinf" THEN NegInfLog
    ELSE FinLog(0 - l.v)

LogRank(l) == IF l.kind = "neginf" THEN 0 ELSE IF l.kind = "fin" THEN 1 ELSE 2

\* big.Float.Cmp: -1, 0 or +1
Cmp(a, b) ==
    IF LogRank(a) # LogRank(b)
    THEN (IF LogRank(a) < LogRank(b) THEN -1 ELSE 1)
    ELSE IF a.kind # "fin" THEN 0
    ELSE IF a.v < b.v THEN -1
    ELSE IF a.v > b.v THEN 1
    ELSE 0

----------------------------------------------------------------------------
(* Configuration: config.json as loaded by loadConfig *)

PoolAddrs == {"0xA", "0xB"}

PoolConfig(addr, t0, t1, d0, d1, type) ==
    [Address |-> addr, Token0 |-> t0, Token1 |-> t1,
     Decimals0 |-> d0, Decimals1 |-> d1, Type |-> type]

\* both pools quote USDC/WETH in the same orientation
ConfigSame ==
    [a \in PoolAddrs |->
        IF a = "0xA" THEN PoolConfig(a, "USDC", "WETH", 6, 18, "uniswap")
        ELSE PoolConfig(a, "USDC", "WETH", 6, 18, "curve")]

\* the pools quote the same pair in opposite orientations
ConfigOpposite ==
    [a \in PoolAddrs |->
        IF a = "0xA" THEN PoolConfig(a, "WETH", "USDC", 18, 6, "uniswap")
        ELSE PoolConfig(a, "USDC", "WETH", 6, 18, "curve")]

\* the pools quote different pairs
ConfigDisjoint ==
    [a \in PoolAddrs |->
        IF a = "0xA" THEN PoolConfig(a, "DAI", "WETH", 18, 18, "uniswap")
        ELSE PoolConfig(a, "WETH", "USDC", 18, 6, "curve")]

Configs == {ConfigSame, ConfigOpposite, ConfigDisjoint}

----------------------------------------------------------------------------
(* Events: types.Log payloads as the ABI unpacks them *)

Event(ok, sqrtPriceX96, tokensSold, tokensBought) ==
    [ok |-> ok, SqrtPriceX96 |-> sqrtPriceX96,
     TokensSold |-> tokensSold, TokensBought |-> tokensBought]

NoEvent == Event(FALSE, Zero, Zero, Zero)

\* Swap logs: sqrtPriceX96 = 0, 2^96 * 10^6 (raw price 10^12), 2^97 * 10^6,
\* and a payload that does not unpack
SwapEvents ==
    {Event(TRUE, Zero, Zero, Zero),
     Event(TRUE, Mul(Pow2(96), Pow10(6)), Zero, Zero),
     Event(TRUE, Mul(Pow2(97), Pow10(6)), Zero, Zero),
     NoEvent}

\* TokenExchange logs: (sold, bought) = (0, 0), (0, 10^18), (10^6, 0),
\* (10^6, 10^18), (2 * 10^6, 10^18), and a payload that does not unpack
TokenExchangeEvents ==
    {Event(TRUE, Zero, Zero, Zero),
     Event(TRUE, Zero, Zero, Pow10(18)),
     Event(TRUE, Zero, Pow10(6), Zero),
     Event(TRUE, Zero, Pow10(6), Pow10(18)),
     Event(TRUE, Zero, Mul(Pow2(1), Pow10(6)), Pow10(18)),
     NoEvent}

----------------------------------------------------------------------------
(* Records of the caches *)

PriceInfo(dexType, poolAddr, price, logPrice, updatedAt) ==
    [DexType |-> dexType, PoolAddr |-> poolAddr, Price |-> price,
     LogPrice |-> logPrice, UpdatedAt |-> updatedAt]

\* the nil *PriceInfo
NilInfo == PriceInfo("", "", Zero, NegInfLog, 0)

\* &BestPriceInfo{}
EmptyBest == [Forward |-> NilInfo, Reverse |-> NilInfo, UpdatedAt |-> 0]

\* fmt.Sprintf("%s_%s", a, b)
PairKey(a, b) == a \o "_" \o b

forwardPair(pool) == PairKey(pool.Token0, pool.Token1)

\* mutant: the reverse key is built in the order of the forward key
reversePairSame(pool) == PairKey(pool.Token0, pool.Token1)

reversePair(pool) == PairKey(pool.Token1, pool.Token0)

\* priceCache[key], the nil slice when the key is absent
Bucket(key) == IF key \in DOMAIN priceCache THEN priceCache[key] ELSE <<>>

\* m[key] = value
MapSet(m, key, value) ==
    [k \in DOMAIN m \cup {key} |-> IF k = key THEN value ELSE m[k]]

\* mutant: the loop never finds the pool's record
RemovePoolNever(bucket, addr) == bucket

\* mutant: the comparison is inverted, so the loop drops the first record
\* of another pool
RemovePoolOther(bucket, addr) ==
    LET hits == {i \in 1..Len(bucket) : bucket[i].PoolAddr # addr}
    IN  IF hits = {} THEN bucket
        ELSE LET i == CHOOSE j \in hits : \A k \in hits : j <= k
             IN  SubSeq(bucket, 1, i - 1) \o SubSeq(bucket, i + 1, Len(bucket))

\* mutant: the loop drops the first record of the bucket, whatever its pool
RemovePoolFirst(bucket, addr) ==
    IF bucket = <<>> THEN bucket ELSE Tail(bucket)

\* the loop that drops the first record of the bucket whose PoolAddr is addr
RemovePool(bucket, addr) ==
    LET hits == {i \in 1..Len(bucket) : bucket[i].PoolAddr = addr}
    IN  IF hits = {} THEN bucket
        ELSE LET i == CHOOSE j \in hits : \A k \in hits : j <= k
             IN  SubSeq(bucket, 1, i - 1) \o SubSeq(bucket, i + 1, Len(bucket))

\* mutant: the negation is forgotten
ReverseLogPriceSame(logPrice) == logPrice

\* reverseLogPrice := new(big.Float).Neg(logPrice)
ReverseLogPrice(logPrice) == Neg(logPrice)

\* mutant: an equal logPrice replaces the held record too
ReplacesOnTie(held, logPrice) ==
    held = NilInfo \/ Cmp(logPrice, held.LogPrice) >= 0

\* mutant: every update replaces the held record
ReplacesAlways(held, logPrice) == TRUE

\* the test that lets an update replace the held best record
Replaces(held, logPrice) ==
    held = NilInfo \/ Cmp(logPrice, held.LogPrice) > 0

----------------------------------------------------------------------------
(* Decoders *)

\* mutant: the unpack error is ignored
UnpackNeverFails(ev) == FALSE

\* err != nil after UnpackIntoInterface
UnpackFails(ev) == ~ev.ok

\* mutant: the adjustment is a product for either sign of decimalsDiff, as
\* in handleCurveEvent
UniswapPriceUnsigned(ev, pool) ==
    LET sqrtPriceFloat == Quo(ev.SqrtPriceX96, Pow2(96))
        price == Mul(sqrtPriceFloat, sqrtPriceFloat)
        decimalsDiff == pool.Decimals0 - pool.Decimals1
    IN  IF decimalsDiff # 0 THEN Mul(price, BigIntExp10(decimalsDiff))
        ELSE price

\* price = (SqrtPriceX96 / 2^96)^2, adjusted by 10^(Decimals0 - Decimals1)
UniswapPrice(ev, pool) ==
    LET sqrtPriceFloat == Quo(ev.SqrtPriceX96, Pow2(96))
        price == Mul(sqrtPriceFloat, sqrtPriceFloat)
        decimalsDiff == pool.Decimals0 - pool.Decimals1
    IN  IF decimalsDiff > 0 THEN Mul(price, BigIntExp10(decimalsDiff))
        ELSE IF decimalsDiff < 0 THEN Quo(price, BigIntExp10(0 - decimalsDiff))
        ELSE price

\* TokensSold / TokensBought is 0/0: big.Float.Quo panics
CurvePanics(ev) == QuoPanics(ev.TokensSold, ev.TokensBought)

\* price = TokensSold / TokensBought, times Exp(10, Decimals1 - Decimals0)
CurvePrice(ev, pool) ==
    LET price == Quo(ev.TokensSold, ev.TokensBought)
        decimalsDiff == pool.Decimals1 - pool.Decimals0
    IN  IF decimalsDiff # 0 THEN Mul(price, BigIntExp10(decimalsDiff))
        ELSE price

----------------------------------------------------------------------------
(* Threads *)

Threads == {"main"} \cup PoolAddrs

NoThread == ""

NoPool == PoolConfig("", "", "", 0, 0, "")

NoLoc ==
    [pool |-> NoPool, ev |-> NoEvent, price |-> Zero, dex |-> "",
     priceInfo |-> NilInfo, reversePriceInfo |-> NilInfo]

\* where a handler returns to: the loop of getInitialPrices, or the
\* select of the pool's goroutine
Return(t) == IF t = "main" THEN "getInitialPrices" ELSE "recv"

\* the positions of updatePriceCache between Lock and Unlock
Critical == {"fwdAppend", "revAppend", "best"}

\* mutant: updatePriceCache does not take the lock
MutexIgnored == TRUE

\* cacheMutex.Lock() can proceed
MutexFree == cacheMutex = NoThread

\* mutant: the return after the failed subscribe is missing
TaskAlways(ok) == "recv"

\* the goroutine started, or not, after SubscribeFilterLogs
TaskAfterSubscribe(ok) == IF ok THEN "recv" ELSE "none"

\* mutant: the oldest of the returned logs is taken
FirstLog(result) == result[1]

\* logs[len(logs)-1]
LastLog(result) == result[Len(result)]

\* the results FilterLogs can return
LogSeqs(S) == UNION {[1..n -> S] : n \in 0..MaxLogs}

Init ==
    /\ config \in Configs
    /\ priceCache = [k \in {} |-> <<>>]
    /\ bestPriceCache = [k \in {} |-> EmptyBest]
    /\ cacheMutex = NoThread
    /\ pc = [t \in Threads |-> IF t = "main" THEN "getInitialPrices" ELSE "none"]
    /\ loc = [t \in Threads |-> NoLoc]
    /\ toSeed = PoolAddrs
    /\ toSub = PoolAddrs
    /\ logs = <<>>
    /\ sub = [p \in PoolAddrs |-> "pending"]
    /\ now = 0
    /\ crashed = FALSE
    /\ applied = [p \in PoolAddrs |-> <<>>]

----------------------------------------------------------------------------
(* updatePriceCache, one action per group of statements.  The handler's   *)
(* own statements touch only its locals, so they are taken in one step     *)
(* with the entry into updatePriceCache that follows them.                 *)

\* the call of updatePriceCache by thread t: cacheMutex.Lock(); logPrice;
\* priceInfo; create the forward bucket when absent and remove the pool's
\* old record from it
updatePriceCache(t, pool, ev, price, dexType) ==
    /\ MutexFree
    /\ cacheMutex' = t
    /\ loc' = [loc EXCEPT ![t] =
                  [NoLoc EXCEPT !.pool = pool, !.ev = ev, !.price = price,
                                !.dex = dexType,
                                !.priceInfo =
                                    PriceInfo(dexType, pool.Address, price,
                                              Log(price), now)]]
    /\ LET key == forwardPair(pool)
       IN  priceCache' =
               MapSet(priceCache, key, RemovePool(Bucket(key), pool.Address))
    /\ pc' = [pc EXCEPT ![t] = "fwdAppend"]

\* handleUniswapEvent run by thread t on event ev of pool: an unpack error
\* is logged at "unpackFailed"; otherwise the price is computed and
\* updatePriceCache is called
handleUniswapEvent(t, pool, ev) ==
    /\ IF UnpackFails(ev)
       THEN /\ pc' = [pc EXCEPT ![t] = "unpackFailed"]
            /\ loc' = [loc EXCEPT ![t] = [NoLoc EXCEPT !.pool = pool, !.ev = ev]]
            /\ UNCHANGED <<cacheMutex, priceCache>>
       ELSE updatePriceCache(t, pool, ev, UniswapPrice(ev, pool), "uniswap")
    /\ UNCHANGED crashed

\* handleCurveEvent run by thread t on event ev of pool; the panic of
\* big.Float.Quo is not recovered and ends the process
handleCurveEvent(t, pool, ev) ==
    IF UnpackFails(ev)
    THEN /\ pc' = [pc EXCEPT ![t] = "unpackFailed"]
         /\ loc' = [loc EXCEPT ![t] = [NoLoc EXCEPT !.pool = pool, !.ev = ev]]
         /\ UNCHANGED <<cacheMutex, priceCache, crashed>>
    ELSE IF CurvePanics(ev)
    THEN /\ crashed' = TRUE
         /\ UNCHANGED <<pc, loc, cacheMutex, priceCache>>
    ELSE /\ updatePriceCache(t, pool, ev, CurvePrice(ev, pool), "curve")
         /\ UNCHANGED crashed

\* logger.Printf("Failed to unpack ..."); return
UnpackFailedReturn(t) ==
    /\ ~crashed
    /\ pc[t] = "unpackFailed"
    /\ pc' = [pc EXCEPT ![t] = Return(t)]
    /\ loc' = [loc EXCEPT ![t] = NoLoc]
    /\ UNCHANGED <<config, logs, priceCache, bestPriceCache, cacheMutex, toSeed,
                   toSub, sub, now, crashed, applied>>

\* append priceInfo to the forward bucket; reversePriceInfo; create the
\* reverse bucket when absent and remove the pool's old record from it
FwdAppend(t) ==
    /\ ~crashed
    /\ pc[t] = "fwdAppend"
    /\ loc' = [loc EXCEPT ![t].reversePriceInfo =
                  PriceInfo(loc[t].dex, loc[t].pool.Address,
                            Quo(One, loc[t].price),
                            ReverseLogPrice(loc[t].priceInfo.LogPrice), now)]
    /\ LET fkey == forwardPair(loc[t].pool)
           rkey == reversePair(loc[t].pool)
           fwd == MapSet(priceCache, fkey, Append(Bucket(fkey), loc[t].priceInfo))
           old == IF rkey \in DOMAIN fwd THEN fwd[rkey] ELSE <<>>
       IN  priceCache' = MapSet(fwd, rkey, RemovePool(old, loc[t].pool.Address))
    /\ pc' = [pc EXCEPT ![t] = "revAppend"]
    /\ UNCHANGED <<config, logs, bestPriceCache, cacheMutex, toSeed, toSub, sub, now,
                   crashed, applied>>

\* priceCache[reversePair] = append(priceCache[reversePair], reversePriceInfo)
RevAppend(t) ==
    /\ ~crashed
    /\ pc[t] = "revAppend"
    /\ LET key == reversePair(loc[t].pool)
       IN  priceCache' =
               MapSet(priceCache, key, Append(Bucket(key), loc[t].reversePriceInfo))
    /\ pc' = [pc EXCEPT ![t] = "best"]
    /\ UNCHANGED <<config, logs, bestPriceCache, cacheMutex, loc, toSeed, toSub,
                   sub, now, crashed, applied>>

\* mutant: UpdatedAt is set whether or not the record is replaced
OfferForwardStamps(best, key, info) ==
    LET bestForward == IF key \in DOMAIN best THEN best[key] ELSE EmptyBest
    IN  MapSet(best, key,
            IF Replaces(bestForward.Forward, info.LogPrice)
            THEN [bestForward EXCEPT !.Forward = info, !.UpdatedAt = now]
            ELSE [bestForward EXCEPT !.UpdatedAt = now])

\* bestPriceCache[key] with its Forward field offered the record info
OfferForward(best, key, info) ==
    LET bestForward == IF key \in DOMAIN best THEN best[key] ELSE EmptyBest
    IN  MapSet(best, key,
            IF Replaces(bestForward.Forward, info.LogPrice)
            THEN [bestForward EXCEPT !.Forward = info, !.UpdatedAt = now]
            ELSE bestForward)

\* mutant: the reverse record is offered to the Forward field
OfferReverseAsForward(best, key, info) ==
    LET bestReverse == IF key \in DOMAIN best THEN best[key] ELSE EmptyBest
    IN  MapSet(best, key,
            IF Replaces(bestReverse.Forward, info.LogPrice)
            THEN [bestReverse EXCEPT !.Forward = info, !.UpdatedAt = now]
            ELSE bestReverse)

\* bestPriceCache[key] with its Reverse field offered the record info
OfferReverse(best, key, info) ==
    LET bestReverse == IF key \in DOMAIN best THEN best[key] ELSE EmptyBest
    IN  MapSet(best, key,
            IF Replaces(bestReverse.Reverse, info.LogPrice)
            THEN [bestReverse EXCEPT !.Reverse = info, !.UpdatedAt = now]
            ELSE bestReverse)

\* the two best-price updates, the deferred cacheMutex.Unlock(), and the
\* handler's return after it has logged the price
BestAndUnlock(t) ==
    /\ ~crashed
    /\ pc[t] = "best"
    /\ bestPriceCache' =
           OfferReverse(
               OfferForward(bestPriceCache, forwardPair(loc[t].pool),
                            loc[t].priceInfo),
               reversePair(loc[t].pool), loc[t].reversePriceInfo)
    /\ cacheMutex' = NoThread
    /\ applied' = [applied EXCEPT ![loc[t].pool.Address] = <<loc[t].price>>]
    /\ pc' = [pc EXCEPT ![t] = Return(t)]
    /\ loc' = [loc EXCEPT ![t] = NoLoc]
    /\ UNCHANGED <<config, logs, priceCache, toSeed, toSub, sub, now, crashed>>

----------------------------------------------------------------------------
(* main *)

\* getUniswapPrice for one pool of getInitialPrices: HeaderByNumber,
\* FilterLogs, and handleUniswapEvent on the last log returned
getUniswapPrice(p) ==
    /\ ~crashed
    /\ pc["main"] = "getInitialPrices"
    /\ p \in toSeed
    /\ config[p].Type = "uniswap"
    /\ toSeed' = toSeed \ {p}
    /\ \E err \in BOOLEAN, result \in LogSeqs(SwapEvents) :
           /\ logs' = IF err THEN <<>> ELSE result
           /\ IF err \/ Len(result) = 0
              THEN UNCHANGED <<pc, loc, crashed, cacheMutex, priceCache>>
              ELSE handleUniswapEvent("main", config[p], LastLog(result))
    /\ UNCHANGED <<config, bestPriceCache, toSub, sub, now, applied>>

\* getCurvePrice for one pool of getInitialPrices
getCurvePrice(p) ==
    /\ ~crashed
    /\ pc["main"] = "getInitialPrices"
    /\ p \in toSeed
    /\ config[p].Type = "curve"
    /\ toSeed' = toSeed \ {p}
    /\ \E err \in BOOLEAN, result \in LogSeqs(TokenExchangeEvents) :
           /\ logs' = IF err THEN <<>> ELSE result
           /\ IF err \/ Len(result) = 0
              THEN UNCHANGED <<pc, loc, crashed, cacheMutex, priceCache>>
              ELSE handleCurveEvent("main", config[p], LastLog(result))
    /\ UNCHANGED <<config, bestPriceCache, toSub, sub, now, applied>>

\* getInitialPrices returns; main calls subscribeToPools
getInitialPricesReturn ==
    /\ ~crashed
    /\ pc["main"] = "getInitialPrices"
    /\ toSeed = {}
    /\ pc' = [pc EXCEPT !["main"] = "subscribeToPools"]
    /\ logs' = <<>>
    /\ UNCHANGED <<config, priceCache, bestPriceCache, cacheMutex, loc, toSeed,
                   toSub, sub, now, crashed, applied>>

\* SubscribeFilterLogs for one pool, and the goroutine when it succeeds
Subscribe(p, ok) ==
    /\ ~crashed
    /\ pc["main"] = "subscribeToPools"
    /\ p \in toSub
    /\ toSub' = toSub \ {p}
    /\ sub' = [sub EXCEPT ![p] = IF ok THEN "ok" ELSE "failed"]
    /\ pc' = [pc EXCEPT ![p] = TaskAfterSubscribe(ok)]
    /\ UNCHANGED <<config, logs, priceCache, bestPriceCache, cacheMutex, loc, toSeed,
                   now, crashed, applied>>

subscribeToUniswapPool(p) ==
    /\ config[p].Type = "uniswap"
    /\ \E ok \in BOOLEAN : Subscribe(p, ok)

subscribeToCurvePool(p) ==
    /\ config[p].Type = "curve"
    /\ \E ok \in BOOLEAN : Subscribe(p, ok)

\* subscribeToPools returns; main blocks in select {}
subscribeToPoolsReturn ==
    /\ ~crashed
    /\ pc["main"] = "subscribeToPools"
    /\ toSub = {}
    /\ pc' = [pc EXCEPT !["main"] = "select"]
    /\ UNCHANGED <<config, logs, priceCache, bestPriceCache, cacheMutex, loc, toSeed,
                   toSub, sub, now, crashed, applied>>

----------------------------------------------------------------------------
(* The goroutine of a subscribed pool *)

\* case vLog := <-logs in the goroutine of subscribeToUniswapPool
ReceiveSwap(p) ==
    /\ ~crashed
    /\ pc[p] = "recv"
    /\ config[p].Type = "uniswap"
    /\ \E ev \in SwapEvents : handleUniswapEvent(p, config[p], ev)
    /\ UNCHANGED <<config, logs, bestPriceCache, toSeed, toSub, sub, now, applied>>

\* case vLog := <-logs in the goroutine of subscribeToCurvePool
ReceiveTokenExchange(p) ==
    /\ ~crashed
    /\ pc[p] = "recv"
    /\ config[p].Type = "curve"
    /\ \E ev \in TokenExchangeEvents : handleCurveEvent(p, config[p], ev)
    /\ UNCHANGED <<config, logs, bestPriceCache, toSeed, toSub, sub, now, applied>>

\* case err := <-sub.Err()
SubscriptionError(p) ==
    /\ ~crashed
    /\ pc[p] = "recv"
    /\ pc' = [pc EXCEPT ![p] = "erroring"]
    /\ UNCHANGED <<config, logs, priceCache, bestPriceCache, cacheMutex, loc, toSeed,
                   toSub, sub, now, crashed, applied>>

\* mutant: the goroutine returns after it has logged the error
LogSubscriptionErrorExits(p) ==
    /\ ~crashed
    /\ pc[p] = "erroring"
    /\ pc' = [pc EXCEPT ![p] = "none"]
    /\ UNCHANGED <<config, logs, priceCache, bestPriceCache, cacheMutex, loc, toSeed,
                   toSub, sub, now, crashed, applied>>

\* logger.Printf("Subscription error ..."), and round the loop
LogSubscriptionError(p) ==
    /\ ~crashed
    /\ pc[p] = "erroring"
    /\ pc' = [pc EXCEPT ![p] = "recv"]
    /\ UNCHANGED <<config, logs, priceCache, bestPriceCache, cacheMutex, loc, toSeed,
                   toSub, sub, now, crashed, applied>>

\* the wall clock advances
Tick ==
    /\ ~crashed
    /\ now < MaxTime
    /\ now' = now + 1
    /\ UNCHANGED <<config, logs, priceCache, bestPriceCache, cacheMutex, pc, loc,
                   toSeed, toSub, sub, crashed, applied>>

Next ==
    \/ \E p \in PoolAddrs : getUniswapPrice(p)
    \/ \E p \in PoolAddrs : getCurvePrice(p)
    \/ getInitialPricesReturn
    \/ \E p \in PoolAddrs : subscribeToUniswapPool(p)
    \/ \E p \in PoolAddrs : subscribeToCurvePool(p)
    \/ subscribeToPoolsReturn
    \/ \E p \in PoolAddrs : ReceiveSwap(p)
    \/ \E p \in PoolAddrs : ReceiveTokenExchange(p)
    \/ \E p \in PoolAddrs : SubscriptionError(p)
    \/ \E p \in PoolAddrs : LogSubscriptionError(p)
    \/ \E t \in Threads : UnpackFailedReturn(t)
    \/ \E t \in Threads : FwdAppend(t)
    \/ \E t \in Threads : RevAppend(t)
    \/ \E t \in Threads : BestAndUnlock(t)

\* The code never reads a timestamp back and never branches on the clock,
\* so Spec holds the clock still.  SpecTimed lets the clock advance, for
\* the configurations in which both pools quote one pair, with the Uniswap
\* pool the only one whose subscription is opened.
Spec == Init /\ [][Next]_vars

InitTimed == Init /\ config \in {ConfigSame, ConfigOpposite}

NextTimed ==
    \/ \E p \in PoolAddrs : getUniswapPrice(p)
    \/ \E p \in PoolAddrs : getCurvePrice(p)
    \/ getInitialPricesReturn
    \/ \E p \in PoolAddrs : subscribeToUniswapPool(p)
    \/ \E p \in PoolAddrs : ReceiveSwap(p)
    \/ \E p \in PoolAddrs : SubscriptionError(p)
    \/ \E p \in PoolAddrs : LogSubscriptionError(p)
    \/ \E t \in Threads : UnpackFailedReturn(t)
    \/ \E t \in Threads : FwdAppend(t)
    \/ \E t \in Threads : RevAppend(t)
    \/ \E t \in Threads : BestAndUnlock(t)
    \/ Tick

SpecTimed == InitTimed /\ [][NextTimed]_vars

----------------------------------------------------------------------------
(* Progress.  SpecLive adds to Spec what the Go scheduler guarantees: a    *)
(* goroutine that can take a step of its own takes it.  Main's statements  *)
(* and the statements of a handler, once the handler holds what it needs,  *)
(* are such steps.  The arrival of an event or of a subscription error,    *)
(* and the answer of the node to a query, are the node's to give: no       *)
(* fairness is assumed of them, and FilterLogsStalls is the behaviour in   *)
(* which the answer to FilterLogs never comes.  The call is made with      *)
(* context.Background(), so nothing ends it.                               *)

\* client.FilterLogs(context.Background(), query) does not return
FilterLogsStalls(p) ==
    /\ ~crashed
    /\ pc["main"] = "getInitialPrices"
    /\ p \in toSeed
    /\ pc' = [pc EXCEPT !["main"] = "FilterLogs"]
    /\ UNCHANGED <<config, logs, priceCache, bestPriceCache, cacheMutex, loc, toSeed,
                   toSub, sub, now, crashed, applied>>

\* the statements of main
MainStep ==
    \/ \E p \in PoolAddrs : getUniswapPrice(p)
    \/ \E p \in PoolAddrs : getCurvePrice(p)
    \/ getInitialPricesReturn
    \/ \E p \in PoolAddrs : subscribeToUniswapPool(p)
    \/ \E p \in PoolAddrs : subscribeToCurvePool(p)
    \/ subscribeToPoolsReturn

\* the statements of a handler that thread t is running
HandlerStep(t) ==
    \/ UnpackFailedReturn(t)
    \/ FwdAppend(t)
    \/ RevAppend(t)
    \/ BestAndUnlock(t)

NextLive ==
    \/ Next
    \/ \E p \in PoolAddrs : FilterLogsStalls(p)

Fairness ==
    /\ WF_vars(MainStep)
    /\ \A t \in Threads : WF_vars(HandlerStep(t))
    /\ \A p \in PoolAddrs : WF_vars(LogSubscriptionError(p))

\* both pools on one pairKey, so that their updates contend for the caches
InitLive == Init /\ config = ConfigSame

SpecLive == InitLive /\ [][NextLive]_vars /\ Fairness

----------------------------------------------------------------------------
(* Vocabulary of the properties *)

\* no updatePriceCache call is in progress
Settled == cacheMutex = NoThread

\* the records of priceCache[key]
Records(key) == {Bucket(key)[i] : i \in 1..Len(Bucket(key))}

\* the records of priceCache[key] that belong to pool addr
RecordsOf(key, addr) == {r \in Records(key) : r.PoolAddr = addr}

\* the records bestPriceCache[key] holds
Held(key) == {bestPriceCache[key].Forward, bestPriceCache[key].Reverse} \ {NilInfo}

\* a price the normalizer accepts: strictly positive and finite
ValidPrice(x) == x.kind = "fin"

CachesUnchanged == priceCache' = priceCache /\ bestPriceCache' = bestPriceCache

----------------------------------------------------------------------------
(* C1 - after every completed updatePriceCache call, the best-price record *)
(* held for a pairKey is a record of priceCache[pairKey] and no record of  *)
(* that bucket has a greater logPrice.  The entry of a pairKey holds up to *)
(* two records, Forward and Reverse; the claim is read as speaking of the  *)
(* better of the two, and is stated for caches that hold valid prices      *)
(* only, so that it does not rest on C4 or C20.                            *)

C1_AllValid ==
    /\ \A key \in DOMAIN priceCache :
           \A r \in Records(key) : ValidPrice(r.Price)
    /\ \A key \in DOMAIN bestPriceCache :
           \A held \in Held(key) : ValidPrice(held.Price)

\* C1: when no update is in progress and every price is valid, some record
\* held for a pairKey is in its bucket and has the bucket's greatest logPrice
C1_BestIsArgmax ==
    (Settled /\ C1_AllValid) =>
        \A key \in DOMAIN bestPriceCache :
            Held(key) # {} =>
                \E held \in Held(key) :
                    /\ held \in Records(key)
                    /\ \A r \in Records(key) : Cmp(r.LogPrice, held.LogPrice) <= 0

----------------------------------------------------------------------------
(* C2 - no two records of a bucket have the same pool address, and once a  *)
(* pool's update has completed each of its two buckets holds exactly one   *)
(* record of that pool, carrying the price of its latest update.           *)

C2_OneRecordPerPool ==
    /\ \A key \in DOMAIN priceCache : \A i, j \in 1..Len(priceCache[key]) :
           priceCache[key][i].PoolAddr = priceCache[key][j].PoolAddr => i = j
    /\ Settled =>
           \A p \in PoolAddrs : applied[p] # <<>> =>
               /\ \E r \in Records(forwardPair(config[p])) :
                      /\ RecordsOf(forwardPair(config[p]), p) = {r}
                      /\ r.Price = applied[p][1]
               /\ \E r \in Records(reversePair(config[p])) :
                      /\ RecordsOf(reversePair(config[p]), p) = {r}
                      /\ r.Price = Quo(One, applied[p][1])

\* pool 0xA has completed at least two updates: the record held as best is
\* one of its earlier records, and its bucket holds only its latest
C2_Witness ==
    /\ Settled
    /\ config = ConfigDisjoint
    /\ applied["0xA"] # <<>>
    /\ "DAI_WETH" \in DOMAIN bestPriceCache
    /\ bestPriceCache["DAI_WETH"].Forward.PoolAddr = "0xA"
    /\ bestPriceCache["DAI_WETH"].Forward.Price # applied["0xA"][1]
    /\ Len(Bucket("DAI_WETH")) = 1

----------------------------------------------------------------------------
(* C3 - with the pool tasks updating concurrently, whenever no update is   *)
(* in progress every record held as best for a pairKey names a pool that   *)
(* has a record in that pairKey's bucket.                                  *)

C3_NoDanglingBest ==
    Settled =>
        \A key \in DOMAIN bestPriceCache : \A held \in Held(key) :
            RecordsOf(key, held.PoolAddr) # {}

\* both tasks run on the same pairKey, and the record held as best is no
\* longer in the bucket although its pool is
C3_Witness ==
    /\ Settled
    /\ config = ConfigSame
    /\ pc["0xA"] = "recv" /\ pc["0xB"] = "recv"
    /\ "USDC_WETH" \in DOMAIN bestPriceCache
    /\ bestPriceCache["USDC_WETH"].Forward.PoolAddr = "0xB"
    /\ bestPriceCache["USDC_WETH"].Forward \notin Records("USDC_WETH")
    /\ Len(Bucket("USDC_WETH")) = 2

----------------------------------------------------------------------------
(* C4 - an event whose forward price is not strictly positive and finite   *)
(* is dropped: no step taken for it changes priceCache or bestPriceCache.  *)

C4_InvalidPriceDropped ==
    [][(\E t \in Threads : cacheMutex' = t /\ ~ValidPrice(loc'[t].price))
           => CachesUnchanged]_vars

----------------------------------------------------------------------------
(* C5 - an event whose payload does not unpack is logged and dropped: the  *)
(* handler returns to its caller without calling updatePriceCache, and     *)
(* neither priceCache nor bestPriceCache changes.                          *)

C5_NoUpdateInProgress(t) == pc[t] \in Critical => loc[t].ev.ok

C5_Step(t) ==
    /\ (pc[t] # "unpackFailed" /\ pc'[t] = "unpackFailed") =>
           /\ ~loc'[t].ev.ok
           /\ CachesUnchanged
    /\ (pc[t] = "unpackFailed" /\ pc'[t] # "unpackFailed") =>
           /\ pc'[t] = Return(t)
           /\ CachesUnchanged

\* C5: no update is ever in progress for an undecodable event, and the steps
\* that log and drop it leave both caches as they were
C5_UndecodableDropped ==
    /\ [](\A t \in Threads : C5_NoUpdateInProgress(t))
    /\ [][\A t \in Threads : C5_Step(t)]_vars

\* a task has just failed to unpack an event while the caches hold records
C5_Witness ==
    /\ pc["0xA"] = "unpackFailed"
    /\ ~loc["0xA"].ev.ok
    /\ applied["0xA"] # <<>>
    /\ applied["0xB"] # <<>>

----------------------------------------------------------------------------
(* C6 - the forward price of a TokenExchange event is TokensSold /         *)
(* TokensBought scaled by 10^(Decimals1 - Decimals0), for both signs of    *)
(* the exponent.                                                           *)

C6_CurvePriceScaled ==
    \A t \in Threads :
        (pc[t] \in Critical /\ loc[t].dex = "curve") =>
            loc[t].price =
                Mul(Quo(loc[t].ev.TokensSold, loc[t].ev.TokensBought),
                    Pow10(loc[t].pool.Decimals1 - loc[t].pool.Decimals0))

----------------------------------------------------------------------------
(* C7 - the forward price of a Swap event is (SqrtPriceX96 / 2^96)^2       *)
(* scaled by 10^(Decimals0 - Decimals1): decimals 6/18 turn the raw ratio  *)
(* R into R * 10^-12, decimals 18/6 into R * 10^12, equal decimals leave   *)
(* it as it is.                                                            *)

C7_Raw(ev) ==
    Mul(Quo(ev.SqrtPriceX96, Pow2(96)), Quo(ev.SqrtPriceX96, Pow2(96)))

\* C7: the price handed to updatePriceCache for a Swap event is the raw
\* ratio scaled by 10^(Decimals0 - Decimals1)
C7_UniswapPriceScaled ==
    \A t \in Threads :
        (pc[t] \in Critical /\ loc[t].dex = "uniswap") =>
            LET R == C7_Raw(loc[t].ev)
                d0 == loc[t].pool.Decimals0
                d1 == loc[t].pool.Decimals1
            IN  /\ loc[t].price = Mul(R, Pow10(d0 - d1))
                /\ (d0 = 6 /\ d1 = 18) => loc[t].price = Quo(R, Pow10(12))
                /\ (d0 = 18 /\ d1 = 6) => loc[t].price = Mul(R, Pow10(12))
                /\ d0 = d1 => loc[t].price = R

\* decimals 6/18: sqrtPriceX96 = 2^96 * 10^6, raw ratio 10^12, price 1
C7_Witness ==
    /\ pc["0xA"] \in Critical
    /\ loc["0xA"].dex = "uniswap"
    /\ loc["0xA"].pool.Decimals0 = 6 /\ loc["0xA"].pool.Decimals1 = 18
    /\ C7_Raw(loc["0xA"].ev) = Pow10(12)
    /\ loc["0xA"].price = One

----------------------------------------------------------------------------
(* C8 - whenever no update is in progress, the logPrice of a pool's record *)
(* in its reverse bucket is the exact negation of the logPrice of its      *)
(* record in its forward bucket; and the reverse record an update builds   *)
(* carries the negation of the logPrice of its forward record.             *)

C8_Negation(f, r) ==
    /\ f.kind = "fin" => (r.kind = "fin" /\ r.v + f.v = 0)
    /\ f.kind = "neginf" => r.kind = "posinf"
    /\ f.kind = "posinf" => r.kind = "neginf"

\* C8: reverse logPrice = -(forward logPrice), in the update's locals and
\* between a pool's two records whenever no update is in progress
C8_ReverseIsNegation ==
    /\ \A t \in Threads :
           pc[t] \in {"revAppend", "best"} =>
               C8_Negation(loc[t].priceInfo.LogPrice,
                           loc[t].reversePriceInfo.LogPrice)
    /\ Settled =>
           \A p \in PoolAddrs :
               \A f \in RecordsOf(forwardPair(config[p]), p) :
                   \A r \in RecordsOf(reversePair(config[p]), p) :
                       C8_Negation(f.LogPrice, r.LogPrice)

\* pool 0xA has a forward and a reverse record with a non-zero logPrice
C8_Witness ==
    /\ Settled
    /\ \E f \in RecordsOf(forwardPair(config["0xA"]), "0xA") :
           \E r \in RecordsOf(reversePair(config["0xA"]), "0xA") :
               /\ f.LogPrice.kind = "fin"
               /\ f.LogPrice.v > 0
               /\ r.LogPrice.v < 0

----------------------------------------------------------------------------
(* C9 - a pool whose initial subscribe call fails gets no task and never   *)
(* runs a handler on a live event; the failure stops neither main nor any  *)
(* other pool: main goes on to the remaining pools, and every pool whose   *)
(* subscribe call succeeds has its task started, which never exits.        *)

C9_Inv ==
    \A p \in PoolAddrs :
        /\ sub[p] = "failed" => (pc[p] = "none" /\ cacheMutex # p)
        /\ sub[p] = "ok" => pc[p] # "none"
        /\ pc["main"] = "select" => sub[p] # "pending"

C9_Step ==
    \A p \in PoolAddrs :
        /\ sub[p] = "failed" => sub'[p] = "failed"
        /\ (sub[p] = "pending" /\ sub'[p] = "failed") =>
               /\ crashed' = crashed
               /\ pc'["main"] = "subscribeToPools"
               /\ \A q \in PoolAddrs \ {p} : pc'[q] = pc[q] /\ sub'[q] = sub[q]

\* C9: a failed subscribe leaves its pool without a task for good and
\* disturbs neither main nor the other pools
C9_FailedSubscribeIsolated == []C9_Inv /\ [][C9_Step]_vars

\* the subscribe call of 0xA has failed, and the task of 0xB is applying a
\* live event after main has finished subscribing
C9_Witness ==
    /\ sub["0xA"] = "failed"
    /\ sub["0xB"] = "ok"
    /\ pc["main"] = "select"
    /\ pc["0xB"] \in Critical

----------------------------------------------------------------------------
(* C10 - the removal, the two insertions and the two best-price updates of *)
(* one event are one critical section under cacheMutex: a thread inside it *)
(* holds the mutex, no other thread changes a cache while it is inside,    *)
(* and whenever the mutex is free every pool that has completed an update  *)
(* has its record in both of its buckets.                                  *)

C10_Inv ==
    /\ \A t \in Threads : pc[t] \in Critical => cacheMutex = t
    /\ Settled =>
           \A p \in PoolAddrs : applied[p] # <<>> =>
               /\ RecordsOf(forwardPair(config[p]), p) # {}
               /\ RecordsOf(reversePair(config[p]), p) # {}

C10_Step ==
    \A t \in Threads :
        (pc[t] \in Critical /\ ~CachesUnchanged) => pc'[t] # pc[t]

\* C10: the steps of one update are one critical section under cacheMutex
C10_CriticalSection == []C10_Inv /\ [][C10_Step]_vars

\* 0xA is inside: its old forward record is removed and the new one not yet
\* inserted, while the task of 0xB, on the same pairKey, is running
C10_Witness ==
    /\ config = ConfigSame
    /\ pc["0xA"] = "fwdAppend"
    /\ applied["0xA"] # <<>>
    /\ RecordsOf("USDC_WETH", "0xA") = {}
    /\ pc["0xB"] = "recv"
    /\ applied["0xB"] # <<>>

----------------------------------------------------------------------------
(* C11 - one event writes both directions: whenever no update is in        *)
(* progress, a pool has a record under token0_token1 if and only if it has *)
(* one under token1_token0, and the two records stem from the same event,  *)
(* the pool's latest: the forward one holds its price, the reverse one     *)
(* 1/price.                                                                *)

\* C11: outside the lock a pool's forward and reverse records exist together
\* and carry price and 1/price of the pool's last applied event
C11_BothDirections ==
    Settled =>
        \A p \in PoolAddrs :
            LET fwd == RecordsOf(PairKey(config[p].Token0, config[p].Token1), p)
                rev == RecordsOf(PairKey(config[p].Token1, config[p].Token0), p)
            IN  /\ fwd # {} <=> rev # {}
                /\ \A f \in fwd : \A r \in rev :
                       /\ applied[p] = <<f.Price>>
                       /\ r.Price = Quo(One, f.Price)
                       /\ r.DexType = f.DexType

\* the pools quote the pair in opposite orientations, both have applied an
\* event, and the live event 0xA applied last had a price other than 1
C11_Witness ==
    /\ Settled
    /\ config = ConfigOpposite
    /\ pc["0xA"] = "recv"
    /\ applied["0xB"] # <<>>
    /\ \E f \in RecordsOf("WETH_USDC", "0xA") : \E r \in RecordsOf("USDC_WETH", "0xA") :
           /\ ValidPrice(f.Price)
           /\ f.Price # One
           /\ r.Price = Quo(One, f.Price)

----------------------------------------------------------------------------
(* C12 - a per-event error (a payload that does not unpack, a price that   *)
(* is not strictly positive and finite, TokensSold = TokensBought = 0)     *)
(* never ends the task that met it nor any other task: every task that was *)
(* started is still running, so it receives the next event.                *)

\* C12: every task that was started is running and the process is alive
C12_TasksSurvive ==
    \A p \in PoolAddrs : sub[p] = "ok" => (~crashed /\ pc[p] # "none")

----------------------------------------------------------------------------
(* C13 - a subscription error is logged and the task stays in its receive  *)
(* loop: the step that takes the error and the step that logs it change no *)
(* cache, the logging step leads back to the select, no step ends a task,  *)
(* a task that has taken an error is eventually back at the select, and an *)
(* event a task has received is eventually applied or dropped with the     *)
(* task back at the select.  A panic that ends the whole process is the    *)
(* matter of C12 and is set aside here.                                    *)

C13_Step ==
    \A p \in PoolAddrs :
        /\ (pc[p] = "recv" /\ pc'[p] = "erroring") => CachesUnchanged
        /\ (pc[p] = "erroring" /\ pc'[p] # "erroring") =>
               (pc'[p] = "recv" /\ CachesUnchanged)
        /\ pc[p] # "none" => pc'[p] # "none"

\* C13: Subscribed -> Erroring -> Subscribed, without an exit and without a
\* change of the caches, and every received event is carried to its end
C13_ErrorKeepsLoop ==
    /\ [][C13_Step]_vars
    /\ \A p \in PoolAddrs :
           (pc[p] \in {"erroring", "unpackFailed"} \cup Critical)
               ~> (pc[p] = "recv" \/ crashed)

\* 0xA has taken a subscription error after it had applied an event, while
\* 0xB is inside an update and main has finished subscribing
C13_Witness ==
    /\ pc["0xA"] = "erroring"
    /\ applied["0xA"] # <<>>
    /\ pc["0xB"] \in Critical
    /\ pc["main"] = "select"

----------------------------------------------------------------------------
(* C14 - seeding comes before subscribing: a pool's subscription is opened *)
(* only when getInitialPrices has visited every pool and the handler it    *)
(* ran has returned, so no task applies a live event before the seed.  Of  *)
(* the logs a query returns, the handler runs on the last one; when the    *)
(* query fails or returns no log, no handler runs and no cache changes.    *)

C14_Inv ==
    /\ \A p \in PoolAddrs :
           (sub[p] # "pending" \/ pc[p] # "none") =>
               /\ toSeed = {}
               /\ pc["main"] \in {"subscribeToPools", "select"}
    /\ pc["main"] \in Critical \cup {"unpackFailed"} =>
           /\ Len(logs) > 0
           /\ loc["main"].ev = logs[Len(logs)]

C14_Step ==
    (toSeed' # toSeed /\ logs' = <<>>) =>
        /\ CachesUnchanged
        /\ cacheMutex' = cacheMutex
        /\ pc' = pc

\* C14: seed first, subscribe afterwards; the last log is the one applied
\* and an empty result touches nothing
C14_SeedBeforeSubscribe == []C14_Inv /\ [][C14_Step]_vars

\* the query of the second pool has returned two logs that differ, the
\* older one decodable too, and main is applying the more recent one
C14_Witness ==
    /\ pc["main"] = "best"
    /\ toSeed = {}
    /\ Len(logs) = 2
    /\ logs[1].ok /\ logs[2].ok
    /\ logs[1] # logs[2]
    /\ loc["main"].ev = logs[2]
    /\ \E p \in PoolAddrs : applied[p] # <<>>

----------------------------------------------------------------------------
(* C15 - a seeding query that does not answer is given up after a bounded  *)
(* wait: whenever main is waiting in FilterLogs, it eventually leaves the  *)
(* call and every pool's subscribe call is eventually made, unless the     *)
(* process has ended.                                                      *)

\* C15: a stalled FilterLogs keeps no pool from being subscribed
C15_StalledQueryAbandoned ==
    (pc["main"] = "FilterLogs") ~> (toSub = {} \/ crashed)

\* without a stall the subscribe call of every pool is eventually made
C15_Unstalled ==
    <>(toSub = {} \/ crashed \/ pc["main"] = "FilterLogs")

----------------------------------------------------------------------------
(* C16 - an update whose logPrice equals that of the record held as best   *)
(* leaves the held record in place, in the Forward field of its forward    *)
(* key and in the Reverse field of its reverse key alike.  Of two pools    *)
(* with one logPrice the best is therefore the one that was applied first. *)

\* the best-price entry of key, the empty one when the key is absent
C16_Entry(best, key) == IF key \in DOMAIN best THEN best[key] ELSE EmptyBest

C16_Step(t) ==
    LET fwd == C16_Entry(bestPriceCache, forwardPair(loc[t].pool)).Forward
        rev == C16_Entry(bestPriceCache, reversePair(loc[t].pool)).Reverse
    IN  (pc[t] = "best" /\ pc'[t] # "best") =>
            /\ (fwd # NilInfo /\ Cmp(loc[t].priceInfo.LogPrice, fwd.LogPrice) = 0)
                   => bestPriceCache'[forwardPair(loc[t].pool)].Forward = fwd
            /\ (rev # NilInfo
                   /\ Cmp(loc[t].reversePriceInfo.LogPrice, rev.LogPrice) = 0)
                   => bestPriceCache'[reversePair(loc[t].pool)].Reverse = rev

\* C16: on a tie the held best record is retained
C16_TieRetainsHeld == [][\A t \in Threads : C16_Step(t)]_vars

\* both pools have the same logPrice under USDC_WETH; 0xA was applied after
\* 0xB (its record is the later one of the bucket), and the best is 0xB's
C16_Witness ==
    /\ Settled
    /\ config = ConfigSame
    /\ Len(Bucket("USDC_WETH")) = 2
    /\ Bucket("USDC_WETH")[1].PoolAddr = "0xB"
    /\ Bucket("USDC_WETH")[2].PoolAddr = "0xA"
    /\ Bucket("USDC_WETH")[1].LogPrice.kind = "fin"
    /\ Bucket("USDC_WETH")[1].LogPrice = Bucket("USDC_WETH")[2].LogPrice
    /\ bestPriceCache["USDC_WETH"].Forward = Bucket("USDC_WETH")[1]

----------------------------------------------------------------------------
(* C17 - in every step, the UpdatedAt of a best-price entry is set to the  *)
(* clock if a record the entry holds is replaced (or first set), and is    *)
(* left as it was if the entry keeps its records.                          *)

C17_Step ==
    \A key \in DOMAIN bestPriceCache' :
        LET old == C16_Entry(bestPriceCache, key)
            new == bestPriceCache'[key]
        IN  IF new.Forward # old.Forward \/ new.Reverse # old.Reverse
            THEN new.UpdatedAt = now
            ELSE new.UpdatedAt = old.UpdatedAt

\* C17: UpdatedAt is refreshed if and only if a held record is replaced
C17_UpdatedAtIffReplaced == [][C17_Step]_vars

\* 0xA has completed an update at time 1 that did not replace the record
\* held under USDC_WETH, whose entry still carries the time 0
C17_Witness ==
    /\ Settled
    /\ config = ConfigSame
    /\ now = 1
    /\ "USDC_WETH" \in DOMAIN bestPriceCache
    /\ bestPriceCache["USDC_WETH"].UpdatedAt = 0
    /\ bestPriceCache["USDC_WETH"].Forward # NilInfo
    /\ \E r \in RecordsOf("USDC_WETH", "0xA") :
           /\ r.UpdatedAt = 1
           /\ r # bestPriceCache["USDC_WETH"].Forward
    /\ bestPriceCache["WETH_USDC"].UpdatedAt = 1

----------------------------------------------------------------------------
(* C18 - the Forward record and the Reverse record of a best-price entry,  *)
(* once set, are never cleared, and are replaced only by a record with a   *)
(* strictly greater logPrice: the held logPrice never decreases.           *)

C18_Kept(old, new) ==
    old # NilInfo =>
        /\ new # NilInfo
        /\ new = old \/ Cmp(new.LogPrice, old.LogPrice) > 0

C18_Step ==
    \A key \in DOMAIN bestPriceCache :
        /\ key \in DOMAIN bestPriceCache'
        /\ C18_Kept(bestPriceCache[key].Forward, bestPriceCache'[key].Forward)
        /\ C18_Kept(bestPriceCache[key].Reverse, bestPriceCache'[key].Reverse)

\* C18: a held best record is only ever replaced by a strictly better one
C18_BestNeverDecreases == [][C18_Step]_vars

\* 0xA was applied with price 4 and then, live, with price 1: the Forward
\* record of USDC_WETH has kept ln 4, the Reverse record of WETH_USDC has
\* risen to 0
C18_Witness ==
    /\ Settled
    /\ config = ConfigSame
    /\ pc["0xA"] = "recv"
    /\ applied["0xA"] = <<One>>
    /\ bestPriceCache["USDC_WETH"].Forward.PoolAddr = "0xA"
    /\ bestPriceCache["USDC_WETH"].Forward.LogPrice = Log(Pow2(2))
    /\ bestPriceCache["WETH_USDC"].Reverse.PoolAddr = "0xA"
    /\ bestPriceCache["WETH_USDC"].Reverse.LogPrice = Log(One)

----------------------------------------------------------------------------
(* C19 - the frame of updatePriceCache.  A step that changes a cache is a  *)
(* step of the call that holds cacheMutex, for a pool P; in the two        *)
(* buckets of P the records of the other pools stay, in their order; the   *)
(* buckets and the best-price entries of every other key stay as they are; *)
(* a pool that has a record in a bucket keeps one there, but for P while   *)
(* its call is in progress, and P has its two records when it unlocks.     *)

\* the bucket of key in cache
C19_Bucket(cache, key) == IF key \in DOMAIN cache THEN cache[key] ELSE <<>>

\* the records of the bucket that are not of pool addr, in their order
C19_Others(bucket, addr) ==
    LET NotOf(r) == r.PoolAddr # addr IN SelectSeq(bucket, NotOf)

\* the bucket has a record of pool addr
C19_Has(bucket, addr) == \E i \in 1..Len(bucket) : bucket[i].PoolAddr = addr

\* thread t steps inside a call of updatePriceCache for pool
C19_Frame(t, pool) ==
    LET own == {forwardPair(pool), reversePair(pool)}
    IN  /\ \A key \in (DOMAIN priceCache \cup DOMAIN priceCache') \ own :
               /\ key \in DOMAIN priceCache /\ key \in DOMAIN priceCache'
               /\ priceCache'[key] = priceCache[key]
        /\ \A key \in (DOMAIN bestPriceCache \cup DOMAIN bestPriceCache') \ own :
               /\ key \in DOMAIN bestPriceCache /\ key \in DOMAIN bestPriceCache'
               /\ bestPriceCache'[key] = bestPriceCache[key]
        /\ \A key \in own :
               C19_Others(C19_Bucket(priceCache', key), pool.Address)
                   = C19_Others(C19_Bucket(priceCache, key), pool.Address)
        /\ cacheMutex' = NoThread =>
               \A key \in own : C19_Has(C19_Bucket(priceCache', key), pool.Address)

C19_Step ==
    /\ ~CachesUnchanged =>
           \E t \in Threads :
               \/ cacheMutex' = t /\ C19_Frame(t, loc'[t].pool)
               \/ cacheMutex = t /\ cacheMutex' = NoThread
                      /\ C19_Frame(t, loc[t].pool)
    /\ \A q \in PoolAddrs : \A key \in DOMAIN priceCache :
           C19_Has(priceCache[key], q) =>
               \/ C19_Has(C19_Bucket(priceCache', key), q)
               \/ \E t \in Threads :
                      cacheMutex' = t /\ loc'[t].pool.Address = q

\* C19: an update changes nothing but its pool's records and the entries of
\* its two keys, and no pool loses its record
C19_UpdateFrame == [][C19_Step]_vars

\* the pools quote the pair in opposite orientations; 0xB is inside an
\* update: its new forward record stands behind the record of 0xA, its
\* old reverse record is removed, and the record of 0xA there has stayed
C19_Witness ==
    /\ config = ConfigOpposite
    /\ pc["0xB"] = "revAppend"
    /\ applied["0xB"] # <<>>
    /\ Len(Bucket("USDC_WETH")) = 2
    /\ Bucket("USDC_WETH")[1].PoolAddr = "0xA"
    /\ Bucket("USDC_WETH")[2] = loc["0xB"].priceInfo
    /\ RecordsOf("WETH_USDC", "0xB") = {}
    /\ RecordsOf("WETH_USDC", "0xA") # {}

----------------------------------------------------------------------------
(* C20 - an update of a pool with tokens (X, Y) writes no field of the     *)
(* best-price cache but the Forward field of X_Y and the Reverse field of  *)
(* Y_X.  So the Forward record of a key is of a pool that has the key as   *)
(* its forward pair, the Reverse record of a pool that has it as its       *)
(* reverse pair, and a field no pool can write is nil: with every pool of  *)
(* a pair in one orientation (X, Y), the Reverse field of X_Y and the      *)
(* Forward field of Y_X.                                                   *)

C20_Inv ==
    \A key \in DOMAIN bestPriceCache :
        /\ bestPriceCache[key].Forward # NilInfo =>
               forwardPair(config[bestPriceCache[key].Forward.PoolAddr]) = key
        /\ bestPriceCache[key].Reverse # NilInfo =>
               reversePair(config[bestPriceCache[key].Reverse.PoolAddr]) = key
        /\ (\A p \in PoolAddrs : forwardPair(config[p]) # key) =>
               bestPriceCache[key].Forward = NilInfo
        /\ (\A p \in PoolAddrs : reversePair(config[p]) # key) =>
               bestPriceCache[key].Reverse = NilInfo

C20_Step ==
    bestPriceCache' # bestPriceCache =>
        \E t \in Threads :
            /\ pc[t] = "best"
            /\ bestPriceCache'[forwardPair(loc[t].pool)].Reverse =
                   C16_Entry(bestPriceCache, forwardPair(loc[t].pool)).Reverse
            /\ bestPriceCache'[reversePair(loc[t].pool)].Forward =
                   C16_Entry(bestPriceCache, reversePair(loc[t].pool)).Forward

\* C20: Forward is written by the pools that have the key as forward pair,
\* Reverse by those that have it as reverse pair, and by nothing else
C20_FieldsByOrientation == []C20_Inv /\ [][C20_Step]_vars

\* the pools quote the pair in opposite orientations: the entry of
\* USDC_WETH holds the record of 0xB as Forward and a record of 0xA with a
\* greater logPrice as Reverse
C20_Witness ==
    /\ Settled
    /\ config = ConfigOpposite
    /\ "USDC_WETH" \in DOMAIN bestPriceCache
    /\ bestPriceCache["USDC_WETH"].Forward.PoolAddr = "0xB"
    /\ bestPriceCache["USDC_WETH"].Reverse.PoolAddr = "0xA"
    /\ Cmp(bestPriceCache["USDC_WETH"].Reverse.LogPrice,
           bestPriceCache["USDC_WETH"].Forward.LogPrice) > 0

====
